---- MODULE Spec2Model ----
(***************************************************************************)
(* Model of twofloat's src/base.rs: the exponent extractor, the            *)
(* no_overlap predicate, TwoFloat::is_valid, TwoFloat::min / max and the   *)
(* comparisons between TwoFloat and f64.                                   *)
(*                                                                         *)
(* An f64 is modelled by its 64-bit pattern, and a 64-bit pattern by the   *)
(* set of the indices (0 = least significant, 63 = sign) of its set bits:  *)
(* TLC's integers are 32 bits wide, the words of the program are 64.       *)
(* x.to_bits() is therefore the word itself; shifts, masks and             *)
(* leading_zeros are computed on the set of bit indices.                   *)
(***************************************************************************)
EXTENDS Integers, FiniteSets, Sequences

VARIABLES a, b, self, other, scalar, op, ret, arm, stdout, panicked

vars == <<a, b, self, other, scalar, op, ret, arm, stdout, panicked>>

(***************************************************************************)
(* 64-bit words.                                                           *)
(***************************************************************************)
SetMax(S) == CHOOSE m \in S : \A i \in S : i <= m

\* x >> n on u64
Shr(x, n) == {i - n : i \in {j \in x : j >= n}}

\* x & m on u64
BitAnd(x, m) == x \cap m

\* (1 << n) - 1: the n low bits set
LowMask(n) == 0 .. (n - 1)

\* the number a word of at most 31 significant bits stands for (`as u32`)
RECURSIVE AsU32(_)
AsU32(x) == IF x = {} THEN 0
            ELSE LET m == SetMax(x) IN 2 ^ m + AsU32(x \ {m})

\* u64::leading_zeros
leading_zeros(x) == IF x = {} THEN 64 ELSE 63 - SetMax(x)

\* the set bits of the number n < 2^11
BitsOf(n) == {i \in 0 .. 10 : (n \div (2 ^ i)) % 2 = 1}

\* f64::from_bits of sign bit s, biased exponent field e, mantissa field m
F64(s, e, m) == m \cup {52 + i : i \in BitsOf(e)} \cup (IF s = 1 THEN {63} ELSE {})

MANTISSA_DIGITS == 53

\* the exponent field and the mantissa field of an f64; bit 63 is the sign
ExpField == 52 .. 62

ManField == 0 .. 51

(***************************************************************************)
(* f64 of the core library, as base.rs uses it.                            *)
(***************************************************************************)
\* f64::classify
classify(x) ==
    LET man == BitAnd(x, ManField)
        exp == BitAnd(x, ExpField)
    IN  IF man = {} /\ exp = ExpField THEN "Infinite"
        ELSE IF exp = ExpField THEN "Nan"
        ELSE IF man = {} /\ exp = {} THEN "Zero"
        ELSE IF exp = {} THEN "Subnormal"
        ELSE "Normal"

\* f64::is_finite
is_finite(x) == BitAnd(x, ExpField) # ExpField

is_nan(x) == BitAnd(x, ExpField) = ExpField /\ BitAnd(x, ManField) # {}

\* |x| as a 63-bit pattern; for non-NaN words the order of the patterns is
\* the order of the magnitudes
Magnitude(x) == x \ {63}

\* m < n as unsigned integers: the highest bit they differ in is set in n
BitsLess(m, n) == m # n /\ SetMax((m \ n) \cup (n \ m)) \in n

\* x == y on f64
f64_eq(x, y) ==
    /\ ~is_nan(x)
    /\ ~is_nan(y)
    /\ \/ x = y
       \/ Magnitude(x) = {} /\ Magnitude(y) = {}

\* x < y on f64
f64_lt(x, y) ==
    /\ ~is_nan(x)
    /\ ~is_nan(y)
    /\ ~f64_eq(x, y)
    /\ IF 63 \in x
       THEN IF 63 \in y THEN BitsLess(Magnitude(y), Magnitude(x)) ELSE TRUE
       ELSE IF 63 \in y THEN FALSE ELSE BitsLess(Magnitude(x), Magnitude(y))

f64_le(x, y) == f64_lt(x, y) \/ f64_eq(x, y)

f64_ge(x, y) == f64_le(y, x)

\* f64::partial_cmp: Option<Ordering>, None written "None"
f64_partial_cmp(x, y) ==
    LET le == f64_le(x, y)
        ge == f64_ge(x, y)
    IN  IF ~le /\ ~ge THEN "None"
        ELSE IF ~le /\ ge THEN "Greater"
        ELSE IF le /\ ~ge THEN "Less"
        ELSE "Equal"

PosZero == {}

(***************************************************************************)
(* base.rs                                                                 *)
(***************************************************************************)
\* fn exponent(x: f64) -> u32
exponent(x) == AsU32(BitAnd(Shr(x, 52), LowMask(11)))

\* b.to_bits() & ((1 << 52) - 1)
b_mantissa(y) == BitAnd(y, LowMask(52))

\* the u32 subtraction 65 - b_mantissa.leading_zeros() goes below zero
sub_underflows(y) == 65 < leading_zeros(b_mantissa(y))

\* no_overlap with > for >= in the Normal/Normal arm
no_overlap_strict(x, y) ==
    LET ca == classify(x)
        cb == classify(y)
    IN  IF ca = "Normal" /\ cb = "Normal"
        THEN exponent(x) > exponent(y) + MANTISSA_DIGITS
        ELSE IF ca = "Normal" /\ cb = "Subnormal"
        THEN IF exponent(x) >= MANTISSA_DIGITS THEN TRUE
             ELSE exponent(x) >= 65 - leading_zeros(b_mantissa(y))
        ELSE IF ca = "Normal" /\ cb = "Zero" THEN TRUE
        ELSE IF ca = "Subnormal" /\ cb = "Zero" THEN TRUE
        ELSE IF ca = "Zero" /\ cb = "Zero" THEN TRUE
        ELSE FALSE

\* no_overlap without the (Subnormal, Zero) arm
no_overlap_without_subnormal_arm(x, y) ==
    LET ca == classify(x)
        cb == classify(y)
    IN  IF ca = "Normal" /\ cb = "Normal"
        THEN exponent(x) >= exponent(y) + MANTISSA_DIGITS
        ELSE IF ca = "Normal" /\ cb = "Subnormal"
        THEN IF exponent(x) >= MANTISSA_DIGITS THEN TRUE
             ELSE exponent(x) >= 65 - leading_zeros(b_mantissa(y))
        ELSE IF ca = "Normal" /\ cb = "Zero" THEN TRUE
        ELSE IF ca = "Zero" /\ cb = "Zero" THEN TRUE
        ELSE FALSE

\* no_overlap with 64 for 65 in the Normal/Subnormal arm
no_overlap_64(x, y) ==
    LET ca == classify(x)
        cb == classify(y)
    IN  IF ca = "Normal" /\ cb = "Normal"
        THEN exponent(x) >= exponent(y) + MANTISSA_DIGITS
        ELSE IF ca = "Normal" /\ cb = "Subnormal"
        THEN IF exponent(x) >= MANTISSA_DIGITS THEN TRUE
             ELSE exponent(x) >= 64 - leading_zeros(b_mantissa(y))
        ELSE IF ca = "Normal" /\ cb = "Zero" THEN TRUE
        ELSE IF ca = "Subnormal" /\ cb = "Zero" THEN TRUE
        ELSE IF ca = "Zero" /\ cb = "Zero" THEN TRUE
        ELSE FALSE

\* pub fn no_overlap(a: f64, b: f64) -> bool
\* (a wrapped 65 - leading_zeros is above every exponent: false)
no_overlap(x, y) ==
    LET ca == classify(x)
        cb == classify(y)
    IN  IF ca = "Normal" /\ cb = "Normal"
        THEN exponent(x) >= exponent(y) + MANTISSA_DIGITS
        ELSE IF ca = "Normal" /\ cb = "Subnormal"
        THEN LET a_exponent == exponent(x)
             IN  IF a_exponent >= MANTISSA_DIGITS THEN TRUE
                 ELSE IF sub_underflows(y) THEN FALSE
                 ELSE a_exponent >= 65 - leading_zeros(b_mantissa(y))
        ELSE IF ca = "Normal" /\ cb = "Zero" THEN TRUE
        ELSE IF ca = "Subnormal" /\ cb = "Zero" THEN TRUE
        ELSE IF ca = "Zero" /\ cb = "Zero" THEN TRUE
        ELSE FALSE

\* the lines no_overlap prints: println!("a_exponent = {}", a_exponent)
no_overlap_prints(x, y) ==
    IF classify(x) = "Normal" /\ classify(y) = "Subnormal"
    THEN <<exponent(x)>>
    ELSE <<>>

\* the subtraction of line 44 is evaluated and underflows (a panic in a build
\* with overflow checks, a wrapped value without)
no_overlap_underflows(x, y) ==
    /\ classify(x) = "Normal"
    /\ classify(y) = "Subnormal"
    /\ exponent(x) < MANTISSA_DIGITS
    /\ sub_underflows(y)

\* is_valid as its doc comment words it: both components finite
is_valid_finite_only(t) == is_finite(t.hi) /\ is_finite(t.lo)

\* TwoFloat::is_valid
is_valid(t) == is_finite(t.hi) /\ is_finite(t.lo) /\ no_overlap(t.hi, t.lo)

is_valid_prints(t) ==
    IF is_finite(t.hi) /\ is_finite(t.lo) THEN no_overlap_prints(t.hi, t.lo) ELSE <<>>

is_valid_underflows(t) ==
    is_finite(t.hi) /\ is_finite(t.lo) /\ no_overlap_underflows(t.hi, t.lo)

\* TwoFloat::NAN
F64_NAN == F64(0, 2047, {51})

TwoFloat_NAN == [hi |-> F64_NAN, lo |-> F64_NAN]

(***************************************************************************)
(* Inputs.                                                                 *)
(***************************************************************************)
ExpWindow == 1

MantSpan == 1

\* biased exponents around which no_overlap changes its answer, and the ends
ExpLandmarks == {1, 53, 970, 1023, 2046}

Exps == {e \in 0 .. 2047 : \E c \in ExpLandmarks : e >= c - ExpWindow /\ e <= c + ExpWindow}

Mants == {{}, ManField}
           \cup {{51 - k} : k \in 0 .. MantSpan}
           \cup {{k} : k \in 0 .. (MantSpan - 1)}

Words == {F64(s, e, m) : s \in 0 .. 1, e \in Exps, m \in Mants}

Idle == [hi |-> PosZero, lo |-> PosZero]

(***************************************************************************)
(* Calls of the word-level functions.                                      *)
(***************************************************************************)
Init ==
    /\ a \in Words
    /\ b \in Words
    /\ self = [hi |-> a, lo |-> b]
    /\ other = Idle
    /\ scalar = PosZero
    /\ op = "start"
    /\ ret = FALSE
    /\ arm = 0
    /\ stdout = <<>>
    /\ panicked = FALSE

CallExponent ==
    /\ op = "start"
    /\ op' = "exponent"
    /\ ret' = exponent(a)
    /\ UNCHANGED <<a, b, self, other, scalar, arm, stdout, panicked>>

CallNoOverlap ==
    /\ op = "start"
    /\ op' = "no_overlap"
    /\ ret' = no_overlap(a, b)
    /\ stdout' = no_overlap_prints(a, b)
    /\ panicked' \in (IF no_overlap_underflows(a, b) THEN {TRUE, FALSE} ELSE {FALSE})
    /\ UNCHANGED <<a, b, self, other, scalar, arm>>

CallIsValid ==
    /\ op = "start"
    /\ op' = "is_valid"
    /\ ret' = is_valid(self)
    /\ stdout' = is_valid_prints(self)
    /\ panicked' \in (IF is_valid_underflows(self) THEN {TRUE, FALSE} ELSE {FALSE})
    /\ UNCHANGED <<a, b, self, other, scalar, arm>>

Next == CallExponent \/ CallNoOverlap \/ CallIsValid

Spec == Init /\ [][Next]_vars

(***************************************************************************)
(* TwoFloat: the derived comparisons, min and max.                         *)
(***************************************************************************)
\* #[derive(PartialEq)]: field by field
TwoFloat_eq(t, u) == f64_eq(t.hi, u.hi) /\ f64_eq(t.lo, u.lo)

\* #[derive(PartialOrd)]: lexicographic on (hi, lo)
TwoFloat_partial_cmp(t, u) ==
    LET c == f64_partial_cmp(t.hi, u.hi)
    IN  IF c = "Equal" THEN f64_partial_cmp(t.lo, u.lo) ELSE c

\* self <= other, self >= other: the default methods of PartialOrd
TwoFloat_le(t, u) == TwoFloat_partial_cmp(t, u) \in {"Less", "Equal"}

TwoFloat_ge(t, u) == TwoFloat_partial_cmp(t, u) \in {"Greater", "Equal"}

\* min with < for <=
min_arm_strict(t, u) ==
    IF ~is_valid(t) THEN 1
    ELSE IF ~is_valid(u) THEN 2
    ELSE IF TwoFloat_partial_cmp(t, u) = "Less" THEN 3
    ELSE 4

\* min that gives up self only for a valid other
min_arm_checks_both(t, u) ==
    IF ~is_valid(t) /\ is_valid(u) THEN 1
    ELSE IF ~is_valid(u) THEN 2
    ELSE IF TwoFloat_le(t, u) THEN 3
    ELSE 4

\* The arm of TwoFloat::min that returns: 1 = self is invalid (other),
\* 2 = other is invalid (self), 3 = self <= other (self), 4 = else (other).
\* `||` evaluates self <= other only when other is valid.
min_arm(t, u) ==
    IF ~is_valid(t) THEN 1
    ELSE IF ~is_valid(u) THEN 2
    ELSE IF TwoFloat_le(t, u) THEN 3
    ELSE 4

\* min without the check of self
min_without_self_check(t, u) == IF ~is_valid(u) \/ TwoFloat_le(t, u) THEN t ELSE u

\* TwoFloat::min
min(t, u) == IF min_arm(t, u) \in {2, 3} THEN t ELSE u

\* max with <= for >=
max_arm_le(t, u) ==
    IF ~is_valid(t) THEN 1
    ELSE IF ~is_valid(u) THEN 2
    ELSE IF TwoFloat_le(t, u) THEN 3
    ELSE 4

\* The arm of TwoFloat::max that returns, numbered as for min
max_arm(t, u) ==
    IF ~is_valid(t) THEN 1
    ELSE IF ~is_valid(u) THEN 2
    ELSE IF TwoFloat_ge(t, u) THEN 3
    ELSE 4

\* TwoFloat::max
max(t, u) == IF max_arm(t, u) \in {2, 3} THEN t ELSE u

\* what min and max print: other.is_valid() runs only when self is valid
select_prints(t, u) ==
    is_valid_prints(t) \o (IF is_valid(t) THEN is_valid_prints(u) ELSE <<>>)

select_underflows(t, u) ==
    is_valid_underflows(t) \/ (is_valid(t) /\ is_valid_underflows(u))

(***************************************************************************)
(* TwoFloat against f64.                                                   *)
(***************************************************************************)
\* impl PartialEq<f64> for TwoFloat
TwoFloat_eq_f64(t, s) == f64_eq(t.hi, s) /\ f64_eq(t.lo, PosZero)

\* impl PartialEq<TwoFloat> for f64
f64_eq_TwoFloat(s, t) == f64_eq(s, t.hi) /\ f64_eq(t.lo, PosZero)

\* the comparison with a scalar without the tie-break on lo
TwoFloat_partial_cmp_f64_hi_only(t, s) == f64_partial_cmp(t.hi, s)

\* impl PartialOrd<f64> for TwoFloat
TwoFloat_partial_cmp_f64(t, s) ==
    LET hi_cmp == f64_partial_cmp(t.hi, s)
    IN  IF hi_cmp = "Equal" THEN f64_partial_cmp(t.lo, PosZero) ELSE hi_cmp

\* impl PartialOrd<TwoFloat> for f64
f64_partial_cmp_TwoFloat(s, t) ==
    LET hi_cmp == f64_partial_cmp(s, t.hi)
    IN  IF hi_cmp = "Equal" THEN f64_partial_cmp(PosZero, t.lo) ELSE hi_cmp

(***************************************************************************)
(* Inputs of the TwoFloat operations: high words 1 + k ulp of either sign, *)
(* their neighbours across the binade, zeros, NaN and infinities; low      *)
(* words below one ulp of 1.0 of either sign, zeros, NaN, a subnormal and  *)
(* a word that overlaps.                                                   *)
(***************************************************************************)
SelUlps == 1

SelHis ==
    {F64(s, 1023, BitsOf(k)) : s \in 0 .. 1, k \in 0 .. SelUlps}
      \cup {F64(0, 1024, {}), F64(0, 1022, ManField)}
      \cup {F64(0, 0, {}), F64(1, 0, {})}
      \cup {F64_NAN, F64(0, 2047, {}), F64(1, 2047, {})}

SelLos ==
    {F64(s, e, m) : s \in 0 .. 1, e \in {969, 970}, m \in {{}, {51}}}
      \cup {F64(0, 0, {}), F64(1, 0, {})}
      \cup {F64_NAN, F64(0, 0, {0}), F64(0, 1023, {})}

TwoFloats == {[hi |-> h, lo |-> l] : h \in SelHis, l \in SelLos}

Scalars == SelHis \cup SelLos

(***************************************************************************)
(* Calls of min, max and the derived comparisons.                          *)
(***************************************************************************)
InitSel ==
    /\ self \in TwoFloats
    /\ other \in TwoFloats
    /\ a = PosZero
    /\ b = PosZero
    /\ scalar = PosZero
    /\ op = "start"
    /\ ret = FALSE
    /\ arm = 0
    /\ stdout = <<>>
    /\ panicked = FALSE

CallMin ==
    /\ op = "start"
    /\ op' = "min"
    /\ ret' = min(self, other)
    /\ arm' = min_arm(self, other)
    /\ stdout' = select_prints(self, other)
    /\ panicked' \in (IF select_underflows(self, other) THEN {TRUE, FALSE} ELSE {FALSE})
    /\ UNCHANGED <<a, b, self, other, scalar>>

CallMax ==
    /\ op = "start"
    /\ op' = "max"
    /\ ret' = max(self, other)
    /\ arm' = max_arm(self, other)
    /\ stdout' = select_prints(self, other)
    /\ panicked' \in (IF select_underflows(self, other) THEN {TRUE, FALSE} ELSE {FALSE})
    /\ UNCHANGED <<a, b, self, other, scalar>>

CallEq ==
    /\ op = "start"
    /\ op' = "eq"
    /\ ret' = TwoFloat_eq(self, other)
    /\ UNCHANGED <<a, b, self, other, scalar, arm, stdout, panicked>>

CallPartialCmp ==
    /\ op = "start"
    /\ op' = "partial_cmp"
    /\ ret' = TwoFloat_partial_cmp(self, other)
    /\ UNCHANGED <<a, b, self, other, scalar, arm, stdout, panicked>>

NextSel == CallMin \/ CallMax \/ CallEq \/ CallPartialCmp

SpecSel == InitSel /\ [][NextSel]_vars

(***************************************************************************)
(* Calls of the comparisons between a TwoFloat and an f64.                 *)
(***************************************************************************)
InitMixed ==
    /\ self \in TwoFloats
    /\ scalar \in Scalars
    /\ other = Idle
    /\ a = PosZero
    /\ b = PosZero
    /\ op = "start"
    /\ ret = FALSE
    /\ arm = 0
    /\ stdout = <<>>
    /\ panicked = FALSE

CallEqF64 ==
    /\ op = "start"
    /\ op' = "TwoFloat == f64"
    /\ ret' = TwoFloat_eq_f64(self, scalar)
    /\ UNCHANGED <<a, b, self, other, scalar, arm, stdout, panicked>>

CallF64Eq ==
    /\ op = "start"
    /\ op' = "f64 == TwoFloat"
    /\ ret' = f64_eq_TwoFloat(scalar, self)
    /\ UNCHANGED <<a, b, self, other, scalar, arm, stdout, panicked>>

CallPartialCmpF64 ==
    /\ op = "start"
    /\ op' = "TwoFloat cmp f64"
    /\ ret' = TwoFloat_partial_cmp_f64(self, scalar)
    /\ UNCHANGED <<a, b, self, other, scalar, arm, stdout, panicked>>

CallF64PartialCmp ==
    /\ op = "start"
    /\ op' = "f64 cmp TwoFloat"
    /\ ret' = f64_partial_cmp_TwoFloat(scalar, self)
    /\ UNCHANGED <<a, b, self, other, scalar, arm, stdout, panicked>>

NextMixed == CallEqF64 \/ CallF64Eq \/ CallPartialCmpF64 \/ CallF64PartialCmp

SpecMixed == InitMixed /\ [][NextMixed]_vars

(***************************************************************************)
(* The vocabulary of the properties: the fields of a word read off its     *)
(* bits, its IEEE-754 class, and the real number a pair stands for.        *)
(***************************************************************************)
ExpFieldValue(x) ==
    LET bit(i) == IF (52 + i) \in x THEN 2 ^ i ELSE 0
    IN  bit(0) + bit(1) + bit(2) + bit(3) + bit(4) + bit(5)
          + bit(6) + bit(7) + bit(8) + bit(9) + bit(10)

MantissaBits(x) == {i \in x : i <= 51}

Normal(x) == ExpFieldValue(x) >= 1 /\ ExpFieldValue(x) <= 2046

Subnormal(x) == ExpFieldValue(x) = 0 /\ MantissaBits(x) # {}

Zero(x) == ExpFieldValue(x) = 0 /\ MantissaBits(x) = {}

InfOrNan(x) == ExpFieldValue(x) = 2047

\* index of the highest set bit of the mantissa field of a subnormal
TopBit(x) == SetMax(MantissaBits(x))

One == F64(0, 1023, {})

Pow2(k) == F64(0, k + 1023, {})

\* 2^k for k in -1074 .. -1023
SubPow2(k) == F64(0, 0, {k + 1074})

Neg(x) == IF 63 \in x THEN x \ {63} ELSE x \cup {63}

BothValid == is_valid(self) /\ is_valid(other)

BothInvalid == ~is_valid(self) /\ ~is_valid(other)

\* A finite word is the sum of +-2^(p - 1074) over p in Terms(x)
Terms(x) ==
    LET e == ExpFieldValue(x)
    IN  IF e = 0 THEN MantissaBits(x)
        ELSE {i + e - 1 : i \in MantissaBits(x)} \cup {e + 51}

Coef(x, p) == IF p \in Terms(x) THEN (IF 63 \in x THEN -1 ELSE 1) ELSE 0

\* the coefficient of 2^(p - 1074) in (t.hi + t.lo) - (u.hi + u.lo): -4 .. 4
Digit(t, u, p) == Coef(t.hi, p) + Coef(t.lo, p) - Coef(u.hi, p) - Coef(u.lo, p)

Clamp(n) == IF n > 8 THEN 8 ELSE IF n < -8 THEN -8 ELSE n

\* The digits are summed from the highest position down, in units of the
\* current position. The positions below contribute less than 4 units, so a
\* sum of 8 units or more in magnitude keeps its sign: it is clamped to 8
\* and ends the scan, and a gap of more than 4 positions is counted as 4.
RECURSIVE Scan(_, _, _, _, _)
Scan(P, prev, acc, t, u) ==
    IF P = {} \/ acc >= 8 \/ acc <= -8 THEN acc
    ELSE LET p == SetMax(P)
             g == IF prev - p > 4 THEN 4 ELSE prev - p
             shifted == IF acc = 0 THEN 0 ELSE acc * (2 ^ g)
         IN  Scan(P \ {p}, p, Clamp(shifted + Digit(t, u, p)), t, u)

\* negative, zero or positive as the real number t.hi + t.lo is below, equal
\* to or above u.hi + u.lo (finite words)
RealCmp(t, u) ==
    Scan(Terms(t.hi) \cup Terms(t.lo) \cup Terms(u.hi) \cup Terms(u.lo), 0, 0, t, u)

Reverse(c) == IF c = "Less" THEN "Greater" ELSE IF c = "Greater" THEN "Less" ELSE c

Pair(s) == [hi |-> s, lo |-> PosZero]

(***************************************************************************)
(* Properties.                                                             *)
(***************************************************************************)
Selecting == op \in {"min", "max"}

\* C1: for Normal a and b of either sign, no_overlap(a, b) is true exactly
\* when the biased exponent field of a is at least that of b plus 53; so
\* no_overlap(1.0, 2^-52) and no_overlap(-1.0, -2^-52) are false,
\* no_overlap(1.0, 2^-53) and no_overlap(-1.0, -2^-53) are true, and
\* no_overlap(2^-970, 2^-1022) is false.
C1_NormalNormal ==
    op = "no_overlap" =>
        /\ (Normal(a) /\ Normal(b)) => (ret = (ExpFieldValue(a) >= ExpFieldValue(b) + 53))
        /\ (a = One /\ b = Pow2(-52)) => (ret = FALSE)
        /\ (a = Neg(One) /\ b = Neg(Pow2(-52))) => (ret = FALSE)
        /\ (a = One /\ b = Pow2(-53)) => (ret = TRUE)
        /\ (a = Neg(One) /\ b = Neg(Pow2(-53))) => (ret = TRUE)
        /\ (a = Pow2(-970) /\ b = Pow2(-1022)) => (ret = FALSE)

C1_Witness ==
    /\ op = "no_overlap"
    /\ a = Neg(One)
    /\ b = Neg(Pow2(-53))
    /\ Normal(a) /\ Normal(b)
    /\ ret = TRUE

\* C2: for every pair (a, b) that is neither Normal/Normal nor
\* Normal/Subnormal, no_overlap(a, b) is true exactly when b is a zero and a
\* is Zero, Subnormal or Normal; it is false when either word is infinite or
\* NaN, and false when a is Zero or Subnormal and b is not a zero.
C2_OtherClasses ==
    (op = "no_overlap" /\ ~(Normal(a) /\ (Normal(b) \/ Subnormal(b)))) =>
        /\ ret = (Zero(b) /\ (Zero(a) \/ Subnormal(a) \/ Normal(a)))
        /\ (InfOrNan(a) \/ InfOrNan(b)) => (ret = FALSE)
        /\ ((Zero(a) \/ Subnormal(a)) /\ ~Zero(b)) => (ret = FALSE)

C2_Witness ==
    /\ op = "no_overlap"
    /\ Subnormal(a)
    /\ b = Neg(PosZero)
    /\ ret = TRUE

\* C3: is_valid is true exactly when hi is finite, lo is finite and
\* no_overlap(hi, lo) is true; it is false whenever either component is
\* infinite or NaN, whatever the other is, and TwoFloat::NAN is invalid.
C3_IsValid ==
    op = "is_valid" =>
        /\ ret = (~InfOrNan(self.hi) /\ ~InfOrNan(self.lo) /\ no_overlap(self.hi, self.lo))
        /\ (InfOrNan(self.hi) \/ InfOrNan(self.lo)) => (ret = FALSE)
        /\ (self = TwoFloat_NAN) => (ret = FALSE)

C3_Witness ==
    /\ op = "is_valid"
    /\ self = TwoFloat_NAN
    /\ ret = FALSE

\* C4: when exactly one operand of min or max is invalid, both return the
\* valid operand with its words unchanged, in whichever position the invalid
\* operand is.
C4_OneInvalid ==
    Selecting =>
        /\ (~is_valid(self) /\ is_valid(other)) => (ret = other)
        /\ (is_valid(self) /\ ~is_valid(other)) => (ret = self)

C4_Witness ==
    /\ op = "min"
    /\ self.hi = One /\ self.lo = One
    /\ ~is_valid(self)
    /\ is_valid(other)
    /\ TwoFloat_le(self, other)
    /\ ret = other
    /\ ret # self

\* C5: for valid operands, min returns the operand whose real number
\* hi + lo is the smaller and max the one whose real number is the larger:
\* the real value of min(a, b) is above that of neither operand and the real
\* value of max(a, b) is below that of neither.
C5_SelectsByRealValue ==
    (Selecting /\ BothValid) =>
        /\ (op = "min") => (RealCmp(ret, self) <= 0 /\ RealCmp(ret, other) <= 0)
        /\ (op = "max") => (RealCmp(ret, self) >= 0 /\ RealCmp(ret, other) >= 0)

\* C6: for valid a and b that compare equal under the type's equality
\* (+0.0 and -0.0 equal), min(a, b) and max(a, b) both return self, and so
\* min(a, b) == max(a, b).
C6_EqualOperands ==
    (Selecting /\ BothValid /\ TwoFloat_eq(self, other)) =>
        /\ ret = self
        /\ (op = "min") => TwoFloat_eq(ret, max(self, other))
        /\ (op = "max") => TwoFloat_eq(min(self, other), ret)

C6_Witness ==
    /\ op = "min"
    /\ BothValid
    /\ TwoFloat_eq(self, other)
    /\ self # other
    /\ ret = self

\* C7: every comparison between a TwoFloat (hi, lo), valid or not, and an
\* f64 s gives what the TwoFloat comparison with the pair (s, 0.0) gives:
\* (hi, lo) == s iff hi == s and lo is a zero; partial_cmp is the
\* lexicographic one, None when the hi comparison is unordered; and the
\* operations with the scalar on the left are the mirror.
C7_ScalarAsPair ==
    /\ (op = "TwoFloat == f64") =>
          /\ ret = TwoFloat_eq(self, Pair(scalar))
          /\ ret = (f64_eq(self.hi, scalar) /\ Zero(self.lo))
    /\ (op = "f64 == TwoFloat") =>
          /\ ret = TwoFloat_eq(Pair(scalar), self)
          /\ ret = TwoFloat_eq_f64(self, scalar)
    /\ (op = "TwoFloat cmp f64") =>
          /\ ret = TwoFloat_partial_cmp(self, Pair(scalar))
          /\ (f64_partial_cmp(self.hi, scalar) = "None") => (ret = "None")
    /\ (op = "f64 cmp TwoFloat") =>
          /\ ret = TwoFloat_partial_cmp(Pair(scalar), self)
          /\ ret = Reverse(TwoFloat_partial_cmp_f64(self, scalar))

C7_Witness ==
    /\ op = "TwoFloat cmp f64"
    /\ ~is_valid(self)
    /\ f64_eq(self.hi, scalar)
    /\ ret = "Greater"

\* C8: for Normal a with biased exponent e and Subnormal b whose mantissa
\* has its highest set bit at index t, no_overlap(a, b) is true exactly when
\* e >= t + 2, that is when the leading bit of b (2^(t-1074)) lies strictly
\* below the last mantissa bit of a (2^(e-1075)); the e >= 53 shortcut agrees
\* with the rule and 65 - leading_zeros(mantissa) never underflows.
\* no_overlap(2^-970, 2^-1023) and no_overlap(2^-971, 2^-1024) are true,
\* no_overlap(2^-971, 2^-1023) is false.
C8_NormalSubnormal ==
    op = "no_overlap" =>
        /\ (Normal(a) /\ Subnormal(b)) =>
              /\ ret = (ExpFieldValue(a) >= TopBit(b) + 2)
              /\ ret = (TopBit(b) - 1074 < ExpFieldValue(a) - 1075)
              /\ (ExpFieldValue(a) >= 53) => (ret = TRUE)
              /\ leading_zeros(b_mantissa(b)) <= 65
              /\ ~no_overlap_underflows(a, b)
              /\ ~panicked
        /\ (a = Pow2(-970) /\ b = SubPow2(-1023)) => (ret = TRUE)
        /\ (a = Pow2(-971) /\ b = SubPow2(-1023)) => (ret = FALSE)
        /\ (a = Pow2(-971) /\ b = SubPow2(-1024)) => (ret = TRUE)

C8_Witness ==
    /\ op = "no_overlap"
    /\ a = Pow2(-971)
    /\ b = Neg(SubPow2(-1024))
    /\ Normal(a) /\ Subnormal(b)
    /\ ExpFieldValue(a) = TopBit(b) + 2
    /\ ret = TRUE

\* C9 as stated: when both operands of min (or max) are invalid, the call
\* falls through to the ordering comparison (self <= other for min,
\* self >= other for max) and that comparison decides the operand returned.
C9_ComparisonDecides ==
    (Selecting /\ BothInvalid) =>
        /\ (op = "min") => (ret = IF TwoFloat_le(self, other) THEN self ELSE other)
        /\ (op = "max") => (ret = IF TwoFloat_ge(self, other) THEN self ELSE other)

\* C9 amended: when both operands of min (or max) are invalid, the check of
\* self fails first and other is returned unchanged; neither other.is_valid()
\* nor the ordering comparison is evaluated.
C9_OtherReturned ==
    (Selecting /\ BothInvalid) =>
        /\ arm = 1
        /\ ret = other

C9_Witness ==
    /\ op = "min"
    /\ BothInvalid
    /\ TwoFloat_le(self, other)
    /\ self # other
    /\ arm = 1
    /\ ret = other

\* C10: min and max return one of the two operands with both words
\* unchanged; the result is valid whenever at least one operand is, and
\* invalid only when both are invalid. Two valid operands are never
\* unordered, and min(a, b) <= a, min(a, b) <= b, max(a, b) >= a,
\* max(a, b) >= b under the lexicographic ordering of the type.
C10_ReturnsAnOperand ==
    Selecting =>
        /\ ret \in {self, other}
        /\ (is_valid(self) \/ is_valid(other)) => is_valid(ret)
        /\ ~is_valid(ret) => BothInvalid
        /\ BothValid =>
              /\ TwoFloat_partial_cmp(self, other) # "None"
              /\ (op = "min") => (TwoFloat_le(ret, self) /\ TwoFloat_le(ret, other))
              /\ (op = "max") => (TwoFloat_ge(ret, self) /\ TwoFloat_ge(ret, other))

C10_Witness ==
    /\ op = "max"
    /\ BothValid
    /\ TwoFloat_partial_cmp(self, other) = "Less"
    /\ ret = other
    /\ ret # self

====
